---- MODULE Spec2Model ----
(***************************************************************************)
(* mikrodb: a single-writer transactional key-value store with a          *)
(* write-ahead log (src/src/log.rs) and full-image checkpoints            *)
(* (src/src/database.rs).                                                  *)
(*                                                                         *)
(* The model keeps the two files (log file, data file), the in-memory     *)
(* Database and the live Transaction, and steps through Database::new and *)
(* exec_checkpointing one file-system call at a time so that a crash can  *)
(* fall between any two of them.                                           *)
(***************************************************************************)
EXTENDS Integers, Sequences, FiniteSets, TLC

\* ------------------------------------------------------------------ bounds
Keys == {1, 2}
Vals == {1, 2}
\* Operations are issued only while the log holds fewer than MaxLog - 1 frames.
MaxLog == 3
\* Number of injected I/O failures in one behaviour (SpecF only).
MaxFaults == 1

\* ------------------------------------------------------------ value domain
\* Option::None for a value: BTreeMap::get found nothing / writeset tombstone.
Absent == 0
\* BTreeMap::get on the writeset returned None: the key has no writeset entry.
NoEntry == -1

EmptyData == [k \in Keys |-> Absent]
EmptyWriteset == [k \in Keys |-> NoEntry]

\* ------------------------------------------------------------- log records
LogRecord(op, k, v) == [op |-> op, key |-> k, value |-> v]
CommitRecord == LogRecord("Commit", 0, 0)
AbortRecord == LogRecord("Abort", 0, 0)

\* Length of serde_json::to_string(record) for one-digit i32 keys and values:
\* {"Create":{"key":1,"value":1}}  {"Read":{"key":1}}  "Commit"  "Abort"
BodyLen(r) ==
  CASE r.op \in {"Create", "Update"} -> 30
    [] r.op = "Delete" -> 20
    [] r.op = "Read" -> 18
    [] r.op = "Commit" -> 8
    [] OTHER -> 7

HashLen == 32
LenLen == 8
\* A frame on disk is hash(32) || len(8, little endian) || body.
FrameLen(r) == HashLen + LenLen + BodyLen(r)

\* serde_json::to_string(record) with the two fields in the other order.
record_to_string_Swapped(r) ==
  CASE r.op \in {"Create", "Update"} ->
         <<(CASE r.op = "Create" -> 1 [] OTHER -> 3), r.value, r.key>>
    [] r.op = "Read" -> <<2, r.key>>
    [] r.op = "Delete" -> <<4, r.key>>
    [] r.op = "Commit" -> <<5>>
    [] OTHER -> <<6>>

\* Position of a variant in enum LogRecord.
Tag(op) ==
  CASE op = "Create" -> 1 [] op = "Read" -> 2 [] op = "Update" -> 3
    [] op = "Delete" -> 4 [] op = "Commit" -> 5 [] OTHER -> 6

\* serde_json::to_string(record): the variant, then its fields in order.
record_to_string(r) ==
  CASE r.op \in {"Create", "Update"} -> <<Tag(r.op), r.key, r.value>>
    [] r.op \in {"Read", "Delete"} -> <<Tag(r.op), r.key>>
    [] OTHER -> <<Tag(r.op)>>

\* serde_json::from_str::<LogRecord>(body) succeeds: a known variant with
\* exactly its fields.
record_from_str_ok(b) ==
  /\ Len(b) >= 1
  /\ \/ b[1] \in {1, 3} /\ Len(b) = 3
     \/ b[1] \in {2, 4} /\ Len(b) = 2
     \/ b[1] \in {5, 6} /\ Len(b) = 1

\* serde_json::from_str::<LogRecord>(body).
record_from_str(b) ==
  CASE b[1] = 1 -> LogRecord("Create", b[2], b[3])
    [] b[1] = 2 -> LogRecord("Read", b[2], 0)
    [] b[1] = 3 -> LogRecord("Update", b[2], b[3])
    [] b[1] = 4 -> LogRecord("Delete", b[2], 0)
    [] b[1] = 5 -> CommitRecord
    [] OTHER -> AbortRecord

\* Sha256 of a body, as a digest that depends on every position of it.
RECURSIVE Sha256(_)
Sha256(b) == IF b = <<>> THEN 1 ELSE (Sha256(SubSeq(b, 1, Len(b) - 1)) * 7 + b[Len(b)]) % 251

\* A frame of the log file: the hash, length and body write_log computed for
\* record rec, the number n of the frame's bytes that are in the file, and the
\* fate of the transaction that wrote it (st, history only: "u" unresolved,
\* "c" committed, "a" aborted, "f" commit failed).
Frame(r, n, st) ==
  [rec |-> r, hash |-> Sha256(record_to_string(r)), len |-> BodyLen(r),
   body |-> record_to_string(r), n |-> n, st |-> st]

\* write_log with every write succeeding: one complete frame is appended.
write_log(l, r, st) == Append(l, Frame(r, FrameLen(r), st))

\* A failing write_log that leaves the whole frame in the file.
write_log_torn_Whole(l, r, n, st) == Append(l, Frame(r, FrameLen(r), st))

\* write_log failing after n bytes of the frame reached the file.
write_log_torn(l, r, n, st) == IF n = 0 THEN l ELSE Append(l, Frame(r, n, st))

\* Bytes in the file when the 1st, 2nd or 3rd write call of write_log fails.
FailPoints == {0, HashLen, HashLen + LenLen}

Min(S) == CHOOSE x \in S : \A y \in S : x <= y

\* read_log_entry that takes a frame whose bytes stop short.
read_log_entry_ok_Short(f) ==
  /\ f.hash = Sha256(f.body)
  /\ record_from_str_ok(f.body)

\* read_log_entry returns Ok on a frame iff all its bytes are there (no short
\* read), the body hashes to the stored hash and the body decodes. After a
\* short frame the reads are misaligned and fail for every later frame too.
read_log_entry_ok(f) ==
  /\ f.n = HashLen + LenLen + f.len
  /\ f.len = BodyLen(f.rec)
  /\ f.hash = Sha256(f.body)
  /\ record_from_str_ok(f.body)

\* The entry read_log_entry returns: the decoded body.
read_log_entry(f) == [f EXCEPT !.rec = record_from_str(f.body)]

\* Index of the last frame before the first one read_log_entry fails on.
ValidPrefix(l) ==
  LET bad == {i \in 1..Len(l) : ~read_log_entry_ok(l[i])}
  IN  IF bad = {} THEN Len(l) ELSE Min(bad) - 1

\* read_log: the entries before the first one read_log_entry fails on.
read_log(l) == [i \in 1..ValidPrefix(l) |-> read_log_entry(l[i])]

RECURSIVE BytesFrom(_, _)
BytesFrom(l, i) == IF i > Len(l) THEN 0 ELSE l[i].n + BytesFrom(l, i + 1)

\* The first failing frame stops before its length field is complete and more
\* bytes follow: read_u64 takes the length from the next frame's hash bytes,
\* and vec![0u8; len] is asked for that many bytes.
read_log_garbled(l) ==
  /\ ValidPrefix(l) < Len(l)
  /\ LET i == ValidPrefix(l) + 1
     IN  /\ l[i].n < HashLen + LenLen
         /\ BytesFrom(l, i) >= HashLen + LenLen

\* ---------------------------------------------------------- crash recovery
\* CommitQueue with an Abort arm that forgets queue.clear().
RECURSIVE CommitQueue_AbortKeeps(_, _, _)
CommitQueue_AbortKeeps(logs, queue, commit) ==
  IF logs = <<>> THEN commit
  ELSE LET log == Head(logs) IN
       CASE log.rec.op = "Commit" ->
              CommitQueue_AbortKeeps(Tail(logs), <<>>, commit \o queue)
         [] log.rec.op = "Abort" -> CommitQueue_AbortKeeps(Tail(logs), queue, commit)
         [] OTHER -> CommitQueue_AbortKeeps(Tail(logs), Append(queue, log), commit)

\* CommitQueue in which a Read ends the pending transaction like an Abort.
RECURSIVE CommitQueue_ReadBoundary(_, _, _)
CommitQueue_ReadBoundary(logs, queue, commit) ==
  IF logs = <<>> THEN commit
  ELSE LET log == Head(logs) IN
       CASE log.rec.op = "Commit" ->
              CommitQueue_ReadBoundary(Tail(logs), <<>>, commit \o queue)
         [] log.rec.op \in {"Abort", "Read"} ->
              CommitQueue_ReadBoundary(Tail(logs), <<>>, commit)
         [] OTHER -> CommitQueue_ReadBoundary(Tail(logs), Append(queue, log), commit)

\* First loop of crash_recover: the queue is drained into commit at a Commit,
\* cleared at an Abort, and grows by every other record.
RECURSIVE CommitQueue(_, _, _)
CommitQueue(logs, queue, commit) ==
  IF logs = <<>> THEN commit
  ELSE LET log == Head(logs) IN
       CASE log.rec.op = "Commit" -> CommitQueue(Tail(logs), <<>>, commit \o queue)
         [] log.rec.op = "Abort" -> CommitQueue(Tail(logs), <<>>, commit)
         [] OTHER -> CommitQueue(Tail(logs), Append(queue, log), commit)

\* A replay arm that checks the operation's precondition as the live
\* operation does.
RedoRecord_Strict(d, r) ==
  CASE r.op = "Create" -> IF d[r.key] = Absent THEN [d EXCEPT ![r.key] = r.value] ELSE d
    [] r.op = "Update" -> IF d[r.key] # Absent THEN [d EXCEPT ![r.key] = r.value] ELSE d
    [] r.op = "Delete" -> [d EXCEPT ![r.key] = Absent]
    [] OTHER -> d

\* One arm of the second loop of crash_recover.
RedoRecord(d, r) ==
  CASE r.op \in {"Create", "Update"} -> [d EXCEPT ![r.key] = r.value]
    [] r.op = "Delete" -> [d EXCEPT ![r.key] = Absent]
    [] OTHER -> d

\* Second loop of crash_recover: apply the commit queue in order.
RECURSIVE Redo(_, _)
Redo(d, commit) ==
  IF commit = <<>> THEN d ELSE Redo(RedoRecord(d, Head(commit).rec), Tail(commit))

\* ------------------------------------------------------------ data file image
Tok(t, k, v) == [t |-> t, k |-> k, v |-> v]

RECURSIVE Entries(_, _)
Entries(d, ks) ==
  IF ks = {} THEN <<>>
  ELSE LET k == Min(ks) IN
       (IF d[k] = Absent THEN <<>> ELSE <<Tok("pair", k, d[k])>>) \o Entries(d, ks \ {k})

\* serde_json::to_string(&BTreeMap): '{' entries in key order '}'.
to_string(d) == <<Tok("{", 0, 0)>> \o Entries(d, Keys) \o <<Tok("}", 0, 0)>>

\* serde_json::from_str accepts exactly a complete object; the empty string
\* and every proper prefix of an image are errors.
from_str_ok(c) ==
  /\ Len(c) >= 2
  /\ c[1].t = "{"
  /\ c[Len(c)].t = "}"
  /\ \A i \in 2..(Len(c) - 1) : c[i].t = "pair"

from_str(c) ==
  [k \in Keys |->
     LET hits == {i \in 2..(Len(c) - 1) : c[i].k = k}
     IN  IF hits = {} THEN Absent ELSE c[CHOOSE i \in hits : \A j \in hits : j <= i].v]

NoFile == [exists |-> FALSE, content |-> <<>>]
File(c) == [exists |-> TRUE, content |-> c]


\* ------------------------------------------------------------------- state
VARIABLES
  pc,          \* where the Database is: "closed", inside new, "open", inside drop
  caller,      \* who runs exec_checkpointing: "new", "drop" or "none"
  data,        \* Database.data
  txLive,      \* a Transaction handle exists
  writeset,    \* Transaction.writeset
  log,         \* the log file: a sequence of frames
  synced,      \* number of leading frames of the log file forced to disk
  datafile,    \* the data file
  dataSynced,  \* the data file's content has been forced to disk
  result,      \* what the last call returned
  faults,      \* I/O failures injected so far
  \* history variables, read by the properties only
  txStart,     \* Len(log) when the live transaction began
  txSpec,      \* the live transaction's writes: value, Absent = deleted
  expected,    \* committed transactions' writes applied in order, while clean
  clean,       \* no handle was forgotten and no crash happened so far
  redo,        \* the records staged by committed transactions, not yet checkpointed
  readLog      \* the frames the last crash_recover got from read_log

vars == <<pc, caller, data, txLive, writeset, log, synced, datafile, dataSynced,
          result, faults, txStart, txSpec, expected, clean, redo, readLog>>

disk == <<log, synced, datafile, dataSynced>>
hist == <<txStart, txSpec, expected, clean, redo, readLog>>

\* Database::new has returned: some dataset, the data file holding its image,
\* an empty log, no transaction.
Init ==
  /\ pc = "open"
  /\ caller = "none"
  /\ data \in [Keys -> Vals \cup {Absent}]
  /\ txLive = FALSE
  /\ writeset = EmptyWriteset
  /\ log = <<>>
  /\ synced = 0
  /\ datafile = File(to_string(data))
  /\ dataSynced = TRUE
  /\ result = "Ok"
  /\ faults = 0
  /\ txStart = 0
  /\ txSpec = EmptyWriteset
  /\ expected = data
  /\ clean = TRUE
  /\ redo = <<>>
  /\ readLog = <<>>

\* ------------------------------------------------------------ transactions
\* get_content that looks at the dataset only.
get_content_DataOnly(k) == data[k]

\* Transaction::get_content: the writeset entry if there is one, else the dataset's.
get_content(k) == IF writeset[k] = NoEntry THEN data[k] ELSE writeset[k]

\* Room for one more staged record and the boundary record after it.
Room == Len(log) + 2 <= MaxLog
\* Room for the boundary record of one more transaction.
RoomToBegin == Len(log) + 1 <= MaxLog

\* write_log that never calls sync_all.
Synced_Never(l, sync) == synced

\* write_log, if sync { sync_all }: the number of frames of l forced to disk.
Synced(l, sync) == IF sync THEN Len(l) ELSE synced

\* The frames of the live transaction get the fate st.
Retag(l, st) == [i \in 1..Len(l) |-> IF i > txStart THEN [l[i] EXCEPT !.st = st] ELSE l[i]]

begin_transaction ==
  /\ pc = "open" /\ ~txLive /\ RoomToBegin
  /\ txLive' = TRUE
  /\ writeset' = EmptyWriteset
  /\ result' = "Ok"
  /\ txStart' = Len(log)
  /\ txSpec' = EmptyWriteset
  /\ UNCHANGED <<pc, caller, data, disk, faults, expected, clean, redo, readLog>>

\* An operation that returns before write_log: nothing but the result changes.
Rejected(e) ==
  /\ result' = e
  /\ UNCHANGED <<pc, caller, data, txLive, writeset, disk, faults, hist>>

\* An operation that appended record r (sync = false) and then set the writeset.
Staged(r, ws, sp) ==
  /\ log' = write_log(log, r, "u")
  /\ synced' = Synced(log', FALSE)
  /\ writeset' = ws
  /\ txSpec' = sp
  /\ result' = "Ok"
  /\ UNCHANGED <<pc, caller, data, txLive, datafile, dataSynced, faults,
                 txStart, expected, clean, redo, readLog>>

create(k, v) ==
  /\ pc = "open" /\ txLive /\ Room
  /\ IF get_content(k) # Absent
       THEN Rejected("KeyDuplicationError")
       ELSE Staged(LogRecord("Create", k, v),
                   [writeset EXCEPT ![k] = v], [txSpec EXCEPT ![k] = v])

read(k) ==
  /\ pc = "open" /\ txLive /\ Room
  /\ log' = write_log(log, LogRecord("Read", k, 0), "u")
  /\ synced' = Synced(log', FALSE)
  /\ result' = IF get_content(k) = Absent THEN "KeyNotFoundError" ELSE "Ok"
  /\ UNCHANGED <<pc, caller, data, txLive, writeset, datafile, dataSynced,
                 faults, hist>>

update(k, v) ==
  /\ pc = "open" /\ txLive /\ Room
  /\ IF get_content(k) = Absent
       THEN Rejected("KeyNotFoundError")
       ELSE Staged(LogRecord("Update", k, v),
                   [writeset EXCEPT ![k] = v], [txSpec EXCEPT ![k] = v])

\* Transaction::delete ends with writeset.remove(&key): the entry is dropped,
\* no None entry is stored.
delete(k) ==
  /\ pc = "open" /\ txLive /\ Room
  /\ IF get_content(k) = Absent
       THEN Rejected("KeyNotFoundError")
       ELSE Staged(LogRecord("Delete", k, 0),
                   [writeset EXCEPT ![k] = NoEntry], [txSpec EXCEPT ![k] = Absent])

\* The loop of Transaction::commit over the writeset: None removes, Some inserts.
Merge(d, ws) == [k \in Keys |-> IF ws[k] = NoEntry THEN d[k] ELSE ws[k]]

\* The handle is gone: by commit, by drop or by mem::forget.
Dismiss ==
  /\ txLive' = FALSE
  /\ writeset' = EmptyWriteset
  /\ txSpec' = EmptyWriteset
  /\ txStart' = 0

commit ==
  /\ pc = "open" /\ txLive
  /\ log' = Retag(write_log(log, CommitRecord, "c"), "c")
  /\ synced' = Synced(log', TRUE)
  /\ data' = Merge(data, writeset)
  /\ Dismiss
  /\ result' = "Ok"
  /\ expected' = IF clean THEN Merge(expected, txSpec) ELSE expected
  /\ redo' = redo \o [i \in 1..(Len(log) - txStart) |-> log[txStart + i].rec]
  /\ UNCHANGED <<pc, caller, datafile, dataSynced, faults, clean, readLog>>

\* Drop for Transaction: an Abort record is appended with sync = true.
DropTransaction ==
  /\ log' = Retag(write_log(log, AbortRecord, "a"), "a")
  /\ synced' = Synced(log', TRUE)
  /\ Dismiss
  /\ UNCHANGED <<pc, caller, data, datafile, dataSynced, faults, expected, clean,
                 redo, readLog>>

\* Transaction::abort returns Ok and its self is dropped.
abort ==
  /\ pc = "open" /\ txLive
  /\ DropTransaction
  /\ result' = "Ok"

\* The handle goes out of scope without commit or abort.
drop_transaction ==
  /\ pc = "open" /\ txLive
  /\ DropTransaction
  /\ UNCHANGED result

\* mem::forget(tx): the handle is released and its Drop never runs.
forget_transaction ==
  /\ pc = "open" /\ txLive
  /\ Dismiss
  /\ clean' = FALSE
  /\ expected' = EmptyData
  /\ UNCHANGED <<pc, caller, data, disk, result, faults, redo, readLog>>


\* ---------------------------------------------------------------- database
\* The in-memory Database is gone (dropped, forgotten or lost in a crash).
Gone ==
  /\ pc' = "closed"
  /\ caller' = "none"
  /\ data' = EmptyData
  /\ Dismiss

\* Database::new up to the construction of db: the log file is opened and the
\* data file is read; a file that cannot be read gives the empty dataset, a
\* file that does not parse makes new return the JSON error.
new ==
  /\ pc = "closed"
  /\ IF ~datafile.exists
       THEN /\ data' = EmptyData
            /\ pc' = "recover"
            /\ UNCHANGED result
       ELSE IF from_str_ok(datafile.content)
         THEN /\ data' = from_str(datafile.content)
              /\ pc' = "recover"
              /\ UNCHANGED result
         ELSE /\ result' = "JSONError"
              /\ UNCHANGED <<pc, data>>
  /\ UNCHANGED <<caller, txLive, writeset, disk, faults, hist>>

\* WALManager::clear that leaves the file as it is.
wal_clear_Noop(l) == l

\* The file after WALManager::clear: set_len(0) and sync_all.
wal_clear(l) == <<>>

\* Database::crash_recover: read_log returns the valid prefix and clears the
\* log file; the committed records are then applied to data.
crash_recover ==
  /\ pc = "recover"
  /\ data' = Redo(data, CommitQueue(read_log(log), <<>>, <<>>))
  /\ log' = wal_clear(log)
  /\ synced' = 0
  /\ readLog' = read_log(log)
  /\ pc' = "recovered"
  /\ UNCHANGED <<caller, txLive, writeset, datafile, dataSynced, result, faults,
                 txStart, txSpec, expected, clean, redo>>

\* exec_checkpointing, OpenOptions ... truncate(true).open: the data file
\* exists and is empty.
CheckpointOpen(who) ==
  /\ datafile' = File(<<>>)
  /\ dataSynced' = FALSE
  /\ caller' = who
  /\ pc' = "ckpt_write"
  /\ readLog' = <<>>
  /\ UNCHANGED <<data, txLive, writeset, log, synced, result, faults, txStart,
                 txSpec, expected, clean>>

\* Database::new calls exec_checkpointing after crash_recover.
new_checkpoint ==
  /\ pc = "recovered"
  /\ CheckpointOpen("new")
  /\ redo' = <<>>

\* Drop for Database calls exec_checkpointing.
drop_database ==
  /\ pc = "open" /\ ~txLive
  /\ CheckpointOpen("drop")
  /\ UNCHANGED redo

\* exec_checkpointing, datafile.write_all(content).
checkpoint_write ==
  /\ pc = "ckpt_write"
  /\ datafile' = File(to_string(data))
  /\ pc' = "ckpt_sync"
  /\ UNCHANGED <<caller, data, txLive, writeset, log, synced, dataSynced, result,
                 faults, hist>>

\* exec_checkpointing, datafile.sync_all().
checkpoint_sync ==
  /\ pc = "ckpt_sync"
  /\ dataSynced' = TRUE
  /\ pc' = "ckpt_clear"
  /\ UNCHANGED <<caller, data, txLive, writeset, log, synced, datafile, result,
                 faults, hist>>

\* exec_checkpointing, self.wal.clear(); in drop the Database is then gone.
checkpoint_clear ==
  /\ pc = "ckpt_clear"
  /\ log' = wal_clear(log)
  /\ synced' = 0
  /\ redo' = <<>>
  /\ IF caller = "new"
       THEN /\ pc' = "new_clear"
            /\ UNCHANGED <<caller, data, txLive, writeset, txStart, txSpec>>
       ELSE Gone
  /\ UNCHANGED <<datafile, dataSynced, result, faults, expected, clean, readLog>>

\* Database::new, db.wal.clear() and Ok(db).
new_clear ==
  /\ pc = "new_clear"
  /\ log' = wal_clear(log)
  /\ synced' = 0
  /\ pc' = "open"
  /\ caller' = "none"
  /\ result' = "Ok"
  /\ UNCHANGED <<data, txLive, writeset, datafile, dataSynced, faults, hist>>

\* Database::clear: the log is cleared, data is cleared, the data file removed;
\* remove_file fails, after the other two, when there is no file.
clear ==
  /\ pc = "open" /\ ~txLive
  /\ log' = wal_clear(log)
  /\ synced' = 0
  /\ data' = EmptyData
  /\ datafile' = NoFile
  /\ result' = IF datafile.exists THEN "Ok" ELSE "IOError"
  /\ expected' = EmptyData
  /\ redo' = <<>>
  /\ UNCHANGED <<pc, caller, txLive, writeset, dataSynced, faults, txStart, txSpec,
                 clean, readLog>>

\* The log has been read and cleared by the running Database::new.
LogConsumed == pc \in {"recovered", "new_clear"} \/ caller = "new"

\* The process ends without any drop running (mem::forget(db), kill, power
\* loss): frames after the last fsync may be lost from the end of the log, and
\* a data file not yet forced to disk may hold any prefix of what was written.
crash ==
  /\ pc # "closed"
  /\ \E m \in synced..Len(log) :
       /\ log' = SubSeq(log, 1, m)
       /\ synced' = m
  /\ \E n \in 0..Len(datafile.content) :
       /\ dataSynced \/ ~datafile.exists => n = Len(datafile.content)
       /\ datafile' = [datafile EXCEPT !.content = SubSeq(datafile.content, 1, n)]
  /\ dataSynced' = TRUE
  /\ Gone
  /\ clean' = FALSE
  /\ redo' = IF LogConsumed THEN <<>> ELSE redo
  /\ readLog' = <<>>
  /\ result' = "Ok"
  /\ expected' = EmptyData
  /\ UNCHANGED faults

\* ----------------------------------------------------------- specification
Next ==
  \/ begin_transaction
  \/ \E k \in Keys, v \in Vals : create(k, v)
  \/ \E k \in Keys : read(k)
  \/ \E k \in Keys, v \in Vals : update(k, v)
  \/ \E k \in Keys : delete(k)
  \/ commit
  \/ abort
  \/ drop_transaction
  \/ forget_transaction
  \/ new
  \/ crash_recover
  \/ new_checkpoint
  \/ drop_database
  \/ checkpoint_write
  \/ checkpoint_sync
  \/ checkpoint_clear
  \/ new_clear
  \/ clear
  \/ crash

Spec == Init /\ [][Next]_vars

\* ------------------------------------------------- recovery of any log
\* Longest record sequence the recovery is run on.
MaxRecs == 3

\* Every LogRecord over Keys and Vals.
Records ==
  {LogRecord(op, k, v) : op \in {"Create", "Update"}, k \in Keys, v \in Vals}
    \cup {LogRecord(op, k, 0) : op \in {"Read", "Delete"}, k \in Keys}
    \cup {CommitRecord, AbortRecord}

RecordSeqs == UNION {[1..n -> Records] : n \in 0..MaxRecs}

\* The log file after write_log of each record of rs, in order, from empty.
RECURSIVE Written(_)
Written(rs) ==
  IF rs = <<>> THEN <<>>
  ELSE write_log(Written(SubSeq(rs, 1, Len(rs) - 1)), rs[Len(rs)], "u")

\* No store is open; the log file holds any record sequence written by
\* write_log, the data file is missing or holds the image of any dataset.
InitP ==
  /\ pc = "closed"
  /\ caller = "none"
  /\ data = EmptyData
  /\ txLive = FALSE
  /\ writeset = EmptyWriteset
  /\ \E rs \in RecordSeqs : log = Written(rs)
  /\ synced = Len(log)
  /\ datafile \in {NoFile} \cup {File(to_string(d)) : d \in [Keys -> Vals \cup {Absent}]}
  /\ dataSynced = TRUE
  /\ result = "Ok"
  /\ faults = 0
  /\ txStart = 0
  /\ txSpec = EmptyWriteset
  /\ expected = EmptyData
  /\ clean = FALSE
  /\ redo = <<>>
  /\ readLog = <<>>

NextP ==
  \/ new
  \/ crash_recover

\* Database::new up to the end of crash_recover, on any log and data file.
SpecP == InitP /\ [][NextP]_vars

\* ------------------------------------------------------------ I/O failures
\* Transaction::commit when write_log fails: the ? returns the error before
\* the merge, self is dropped and Drop for Transaction appends Abort.
CommitFailed(l) ==
  /\ log' = Retag(write_log(l, AbortRecord, "f"), "f")
  /\ synced' = Synced(log', TRUE)
  /\ Dismiss
  /\ result' = "IOError"
  /\ faults' = faults + 1
  /\ UNCHANGED <<pc, caller, data, datafile, dataSynced, expected, clean, redo,
                 readLog>>

\* One of the three write calls of write_log(Commit) fails, n bytes are written.
commit_fail_write(n) ==
  /\ pc = "open" /\ txLive /\ faults < MaxFaults
  /\ CommitFailed(write_log_torn(log, CommitRecord, n, "f"))

\* The Commit frame is written and file.sync_all() fails.
commit_fail_sync ==
  /\ pc = "open" /\ txLive /\ faults < MaxFaults
  /\ CommitFailed(write_log(log, CommitRecord, "f"))

\* create, read, update or delete when write_log fails after n bytes: the ?
\* returns the error before the writeset is touched; the handle stays usable.
StageFailed(r, n) ==
  /\ faults < MaxFaults
  /\ log' = write_log_torn(log, r, n, "u")
  /\ synced' = Synced(log', FALSE)
  /\ result' = "IOError"
  /\ faults' = faults + 1
  /\ UNCHANGED <<pc, caller, data, txLive, writeset, datafile, dataSynced, hist>>

create_fail(k, v, n) ==
  /\ pc = "open" /\ txLive /\ Room
  /\ get_content(k) = Absent
  /\ StageFailed(LogRecord("Create", k, v), n)

read_fail(k, n) ==
  /\ pc = "open" /\ txLive /\ Room
  /\ StageFailed(LogRecord("Read", k, 0), n)

update_fail(k, v, n) ==
  /\ pc = "open" /\ txLive /\ Room
  /\ get_content(k) # Absent
  /\ StageFailed(LogRecord("Update", k, v), n)

delete_fail(k, n) ==
  /\ pc = "open" /\ txLive /\ Room
  /\ get_content(k) # Absent
  /\ StageFailed(LogRecord("Delete", k, 0), n)

\* Database::crash_recover on a garbled log: read_log_entry asks vec![0u8; len]
\* for a length taken from hash bytes; when that cannot be allocated the
\* process panics or aborts inside read_log, before the log is cleared. (When
\* it can, the read fails and crash_recover goes on with the valid prefix.)
crash_recover_panic ==
  /\ pc = "recover"
  /\ read_log_garbled(log)
  /\ Gone
  /\ result' = "panic"
  /\ UNCHANGED <<disk, faults, expected, clean, redo, readLog>>

\* An append of create, read, update or delete fails.
StageFailures ==
  \/ \E k \in Keys, v \in Vals, n \in FailPoints : create_fail(k, v, n)
  \/ \E k \in Keys, n \in FailPoints : read_fail(k, n)
  \/ \E k \in Keys, v \in Vals, n \in FailPoints : update_fail(k, v, n)
  \/ \E k \in Keys, n \in FailPoints : delete_fail(k, n)

\* The transactions of one open Database, with appends that can fail.
NextS ==
  \/ begin_transaction
  \/ \E k \in Keys, v \in Vals : create(k, v)
  \/ \E k \in Keys : read(k)
  \/ \E k \in Keys, v \in Vals : update(k, v)
  \/ \E k \in Keys : delete(k)
  \/ commit
  \/ abort
  \/ drop_transaction
  \/ StageFailures

SpecS == Init /\ [][NextS]_vars

\* The store when an append of create, read, update or delete can fail.
NextA ==
  \/ Next
  \/ StageFailures
  \/ crash_recover_panic

SpecA == Init /\ [][NextA]_vars

NextF ==
  \/ NextA
  \/ \E n \in FailPoints : commit_fail_write(n)
  \/ commit_fail_sync

\* The store on a file system whose writes and fsyncs can fail.
SpecF == Init /\ [][NextF]_vars


\* ================================================================ properties
\* What Database::new would load from the data file as it is now.
ImageOk == ~datafile.exists \/ from_str_ok(datafile.content)
Image == IF datafile.exists THEN from_str(datafile.content) ELSE EmptyData

IsCommitted(f) == f.st = "c"
IsMutation(f) == f.rec.op \in {"Create", "Update", "Delete"}

\* The frames crash_recover applied in the recovery that has just run.
Replayed == CommitQueue(readLog, <<>>, <<>>)

\* visible(k) of the specification's section 4.3, from the state alone.
Visible(k) == IF writeset[k] # NoEntry THEN writeset[k] ELSE data[k]

\* C1: after any sequence of transactions each ended by commit or abort, an
\* orderly close and a reopen, the dataset Database::new is about to return
\* equals the committed transactions' writes applied in order (create/update
\* set the key, delete removes it).
C1_ReopenEqualsCommitted ==
  (pc = "new_clear" /\ clean) => data = expected

\* C2: every record staged by a transaction whose commit returned Ok and not
\* yet folded into a checkpoint is applied, in order, by the next
\* Database::new, however the Database was torn down; and a key that only
\* committed records touch has the value of its last committed write.
C2_LastWrite(k) ==
  LET hits == {i \in 1..Len(redo) : redo[i].key = k /\ redo[i].op # "Read"}
      last == redo[CHOOSE i \in hits : \A j \in hits : j <= i]
  IN  IF hits = {} THEN NoEntry
      ELSE IF last.op = "Delete" THEN Absent ELSE last.value

C2_Foreign(k) ==
  \E i \in 1..Len(Replayed) :
    ~IsCommitted(Replayed[i]) /\ IsMutation(Replayed[i]) /\ Replayed[i].rec.key = k

C2_CommitDurable ==
  pc = "recovered" =>
    /\ LET applied == SelectSeq(Replayed, IsCommitted)
       IN  [i \in 1..Len(applied) |-> applied[i].rec] = redo
    /\ \A k \in Keys :
         (C2_LastWrite(k) # NoEntry /\ ~C2_Foreign(k)) => data[k] = C2_LastWrite(k)

\* C2 witness: a recovery after a crash that replayed a committed update.
C2_Witness ==
  /\ pc = "recovered"
  /\ ~clean
  /\ redo = <<LogRecord("Update", 1, 2)>>
  /\ data[1] = 2

\* C3: the dataset recovered by Database::new holds the effects of committed
\* transactions' records only: it is the image with exactly the records of
\* successfully committed transactions applied.
C3_NoUncommittedVisible ==
  pc = "recovered" => data = Redo(Image, SelectSeq(readLog, IsCommitted))

\* C4: abort() and the drop of an uncommitted handle append a complete Abort
\* frame after the transaction's staged frames, with sync = true, and leave
\* the dataset alone; no record of an aborted transaction is applied by a
\* later recovery, also when a later transaction committed before the crash.
C4_AbortStep ==
  (abort \/ drop_transaction) =>
    /\ Len(log') = Len(log) + 1
    /\ \A i \in 1..Len(log) : log'[i].rec = log[i].rec /\ log'[i].n = log[i].n
    /\ log'[Len(log')].rec = AbortRecord
    /\ read_log_entry_ok(log'[Len(log')])
    /\ synced' = Len(log')
    /\ data' = data

C4_AbortedNotReplayed ==
  /\ pc = "recovered" => \A i \in 1..Len(Replayed) : Replayed[i].st # "a"
  /\ \A i \in 1..Len(log) :
       log[i].st = "a" =>
         \E j \in i..Len(log) :
           /\ log[j].rec = AbortRecord
           /\ j <= synced
           /\ \A m \in i..j : log[m].st = "a"

\* C4, both parts: every abort or drop step is as above, and in every state
\* aborted frames are closed by a durable Abort and are never replayed.
C4_AbortDiscards == [][C4_AbortStep]_vars /\ []C4_AbortedNotReplayed

\* C4 witness: a recovery over a log holding an aborted transaction's staged
\* mutation and a later committed transaction.
C4_Witness ==
  /\ pc = "recovered"
  /\ \E i, j \in 1..Len(readLog) :
       /\ i < j
       /\ readLog[i].st = "a" /\ IsMutation(readLog[i])
       /\ readLog[j].st = "c" /\ readLog[j].rec = CommitRecord

\* C5: once delete(k) has succeeded in the live transaction and k has not been
\* written again, k is not visible: get_content(k) is absent.
C5_TombstoneHides ==
  txLive => \A k \in Keys : txSpec[k] = Absent => get_content(k) = Absent

\* C6: whenever the Database is open and no transaction is live, the dataset
\* equals the checkpoint image with the log replayed under the recovery rule.
C6_DatasetAgreesWithDisk ==
  (pc = "open" /\ ~txLive) =>
    /\ ImageOk
    /\ data = Redo(Image, CommitQueue(read_log(log), <<>>, <<>>))

\* C7: a step of Database::new or exec_checkpointing that empties a log
\* holding frames does so only when the data file is a durable image that
\* already contains the effects of the log's committed records.
C7_ClearStep ==
  ((crash_recover \/ checkpoint_clear \/ new_clear) /\ log # <<>>) =>
    /\ dataSynced /\ ImageOk
    /\ Image = Redo(Image, CommitQueue(read_log(log), <<>>, <<>>))

\* C7, over every step: the log is never cleared before the image is durable.
C7_LogClearedAfterImage == [][C7_ClearStep]_vars

\* C8: the data file, when it exists, always holds one complete image.
C8_ImageAlwaysComplete == datafile.exists => from_str_ok(datafile.content)

\* C9: no record of a transaction whose commit returned an error is applied
\* by a later recovery.
C9_FailedCommitNotReplayed ==
  pc = "recovered" => \A i \in 1..Len(Replayed) : Replayed[i].st # "f"

\* C10: create on a visible key returns KeyDuplicationError, update and delete
\* on a key that is not visible return KeyNotFoundError, and such a call
\* changes neither the log, the writeset, the dataset nor the transaction.
C10_NoTrace ==
  UNCHANGED <<log, synced, writeset, data, txLive, pc, datafile>>

C10_RejectStep ==
  \A k \in Keys, v \in Vals :
    /\ (create(k, v) /\ Visible(k) # Absent) =>
         (result' = "KeyDuplicationError" /\ C10_NoTrace)
    /\ (update(k, v) /\ Visible(k) = Absent) =>
         (result' = "KeyNotFoundError" /\ C10_NoTrace)
    /\ (delete(k) /\ Visible(k) = Absent) =>
         (result' = "KeyNotFoundError" /\ C10_NoTrace)

\* C10, over every step: a precondition error leaves no trace.
C10_PreconditionErrors == [][C10_RejectStep]_vars

\* C10 witness: a rejected create inside a transaction that has staged a write.
C10_Witness ==
  /\ txLive
  /\ result = "KeyDuplicationError"
  /\ \E k \in Keys : writeset[k] # NoEntry

\* ---------------------------------------------------------------------- C11
\* A step of create, read, update or delete: the handle is live before and after.
C11_StageStep == pc = "open" /\ pc' = "open" /\ txLive /\ txLive'

\* The writeset entry a staged record leaves behind.
C11_Reflects(r, ws) ==
  CASE r.op \in {"Create", "Update"} -> ws[r.key] = r.value
    [] r.op = "Delete" -> ws[r.key] = NoEntry
    [] OTHER -> TRUE

C11_IsPrefix(a, b) == Len(a) <= Len(b) /\ a = SubSeq(b, 1, Len(a))

\* C11: in create, update and delete the append completes before the writeset
\* is changed: the writeset changes only in a step that appended one whole
\* frame, and then holds that record's effect. When the append fails the
\* operation returns the error, the writeset and the dataset are unchanged and
\* the log has no new record that recovery would read, also after a later
\* Commit is appended.
C11_WriteAheadAtomic ==
  [][C11_StageStep =>
       /\ writeset' # writeset =>
            /\ Len(log') = Len(log) + 1
            /\ read_log_entry_ok(log'[Len(log')])
            /\ C11_Reflects(log'[Len(log')].rec, writeset')
            /\ \A k \in Keys \ {log'[Len(log')].rec.key} : writeset'[k] = writeset[k]
            /\ result' = "Ok"
       /\ faults' > faults =>
            /\ result' = "IOError"
            /\ writeset' = writeset /\ data' = data
            /\ read_log(log') = read_log(log)
            /\ C11_IsPrefix(read_log(write_log(log', CommitRecord, "c")),
                            read_log(write_log(log, CommitRecord, "c")))
       /\ read_log(log') # read_log(log) =>
            /\ result' # "IOError"
            /\ C11_Reflects(log'[Len(log')].rec, writeset')
  ]_vars

\* An update failed after its hash was written; an earlier create of the same
\* handle is staged, and the writeset still holds the created value.
C11_Witness ==
  /\ pc = "open" /\ txLive /\ result = "IOError"
  /\ Len(log) = 2
  /\ log[1].rec.op = "Create" /\ read_log_entry_ok(log[1])
  /\ log[2].rec.op = "Update" /\ log[2].n = HashLen
  /\ log[2].rec.key = log[1].rec.key /\ log[2].rec.value # log[1].rec.value
  /\ writeset[log[1].rec.key] = log[1].rec.value

\* ---------------------------------------------------------------------- C12
\* C12: Database::new on a data file that is missing or has zero length goes
\* on with the empty dataset.
C12_OpensOnEmptyFile ==
  [][pc = "closed" /\ (~datafile.exists \/ datafile.content = <<>>)
       => pc' = "recover" /\ data' = EmptyData]_vars

\* ---------------------------------------------------------------------- C13
\* The dataset a Database::new would build from data file f and log file l.
C13_Open(f, l) == Redo(from_str(f.content), CommitQueue(read_log(l), <<>>, <<>>))

\* C13: when Database::new returns Ok the log file is empty and the data file
\* holds, forced to disk, a complete image that decodes to the in-memory
\* dataset; a second open on these files builds the same dataset.
C13_OpenPostcondition ==
  [][pc = "new_clear" /\ pc' = "open" =>
       /\ result' = "Ok"
       /\ log' = <<>> /\ synced' = 0
       /\ datafile'.exists /\ dataSynced'
       /\ from_str_ok(datafile'.content)
       /\ from_str(datafile'.content) = data'
       /\ C13_Open(datafile', log') = data'
  ]_vars

\* Database::new is at its return after a crash, with a dataset of two keys
\* that recovery and the checkpoint have put into the data file.
C13_Witness ==
  /\ pc = "new_clear" /\ ~clean
  /\ \A k \in Keys : data[k] # Absent
  /\ data[1] # data[2]

\* ---------------------------------------------------------------------- C14
\* Cuts of 1 to 39 bytes, by the part of the final frame they reach: into the
\* body, through the length field into the hash, and the longest, which leaves
\* at least 8 bytes of the hash of the shortest frame.
C14_Cuts == {1, LenLen, HashLen, HashLen + LenLen - 1}

\* The log file l without its last t bytes.
RECURSIVE C14_Truncate(_, _)
C14_Truncate(l, t) ==
  IF t = 0 \/ l = <<>> THEN l
  ELSE LET last == l[Len(l)]
           front == SubSeq(l, 1, Len(l) - 1)
       IN  IF last.n <= t THEN C14_Truncate(front, t - last.n)
           ELSE Append(front, [last EXCEPT !.n = last.n - t])

\* The dataset recovery builds from the data file's image and log file l.
C14_Recover(l) == Redo(Image, CommitQueue(read_log(l), <<>>, <<>>))

\* C14 as stated: cutting 1 to 39 bytes off the end of a log the store wrote
\* never changes the recovered dataset, whatever the final record is.
C14_CutNeverChanges ==
  (ImageOk /\ log # <<>>) =>
    LET whole == C14_Recover(log)
    IN  \A t \in C14_Cuts : C14_Recover(C14_Truncate(log, t)) = whole

\* C14 amended: cutting 1 to 39 bytes off the end of a log the store wrote
\* recovers the dataset of the log without its final record: the same dataset
\* as the uncut log when the final record is Create, Read, Update, Delete or
\* Abort, and the dataset without the last transaction when it is Commit.
C14_CutDropsFinalRecord ==
  (ImageOk /\ log # <<>>) =>
    LET whole == C14_Recover(log)
        front == C14_Recover(SubSeq(log, 1, Len(log) - 1))
    IN  /\ \A t \in C14_Cuts : C14_Recover(C14_Truncate(log, t)) = front
        /\ log[Len(log)].rec.op # "Commit" => front = whole

\* A log that ends with the Commit of a transaction that changes the dataset:
\* cut by one byte, recovery no longer applies that transaction.
C14_Witness ==
  /\ ImageOk /\ Len(log) >= 2
  /\ log[Len(log)].rec.op = "Commit"
  /\ IsMutation(log[Len(log) - 1])
  /\ C14_Recover(C14_Truncate(log, 1)) # C14_Recover(log)

\* ---------------------------------------------------------------------- C15
\* C15: whatever frame of the log is the first that is short, fails its hash
\* check or does not decode, read_log returns the entries before it and never
\* an error, and Database::new goes on with the dataset replayed from exactly
\* that prefix. (The other way out of recovery is the process being killed.)
C15_LongestValidPrefix ==
  [][pc = "recover" =>
       \/ /\ pc' = "recovered"
          /\ readLog' = [i \in 1..ValidPrefix(log) |-> read_log_entry(log[i])]
          /\ data' = Redo(data, CommitQueue(readLog', <<>>, <<>>))
       \/ pc' = "closed" /\ result' = "Ok"
  ]_vars

\* ---------------------------------------------------------------------- C16
\* C16: replaying the same record sequence a second time changes nothing:
\* for the image d and the log L just recovered, the rule applied to its own
\* result gives that result, and so does a second run on the dataset in
\* memory, be it on the same records or on the log file as the first run left it.
C16_ReplayIdempotent ==
  pc = "recovered" =>
    /\ Redo(Redo(Image, Replayed), Replayed) = Redo(Image, Replayed)
    /\ Redo(data, Replayed) = data
    /\ Redo(data, CommitQueue(read_log(log), <<>>, <<>>)) = data

\* Recovery has applied an Update and then a Create of the same key with
\* another value, on an image without that key.
C16_Witness ==
  /\ pc = "recovered" /\ Len(Replayed) >= 2
  /\ Replayed[1].rec.op = "Update" /\ Replayed[2].rec.op = "Create"
  /\ Replayed[1].rec.key = Replayed[2].rec.key
  /\ Replayed[1].rec.value # Replayed[2].rec.value
  /\ Image[Replayed[1].rec.key] = Absent

\* ---------------------------------------------------------------------- C17
C17_NotRead(f) == f.rec.op # "Read"

\* C17: Read records do not influence recovery: the recovered dataset is the
\* one recovery builds from the same log with every Read record removed.
C17_ReadsIgnored ==
  pc = "recovered" =>
    data = Redo(Image, CommitQueue(SelectSeq(readLog, C17_NotRead), <<>>, <<>>))

\* Recovery has read a mutation, a Read and the Commit behind them, and the
\* dataset differs from the image.
C17_Witness ==
  /\ pc = "recovered" /\ Len(readLog) >= 3
  /\ IsMutation(readLog[1])
  /\ readLog[2].rec.op = "Read"
  /\ readLog[3].rec.op = "Commit"
  /\ data # Image

\* ---------------------------------------------------------------------- C18
\* C18: the records appended with write_log to an empty log are the records
\* read_log returns, in the same order.
C18_RoundTrip ==
  [][pc = "recover" /\ pc' = "recovered" =>
       /\ Len(readLog') = Len(log)
       /\ \A i \in 1..Len(log) : readLog'[i].rec = log[i].rec
  ]_vars

\* read_log has returned three records, the first with a value that is not
\* its key, of three different kinds.
C18_Witness ==
  /\ pc = "recovered" /\ Len(readLog) >= 3
  /\ readLog[1].rec.op = "Create" /\ readLog[1].rec.key # readLog[1].rec.value
  /\ readLog[2].rec.op = "Commit"
  /\ readLog[3].rec.op = "Read"

\* ---------------------------------------------------------------------- C19
\* C19: after a commit that returns Ok the dataset in memory is the dataset
\* before the transaction with every key the transaction last created or
\* updated set to that value and every key it last deleted removed; that is
\* what the next transaction sees, so a deleted key is not found by it.
C19_CommitMerges ==
  [][(/\ pc = "open" /\ txLive
      /\ Len(log') = Len(log) + 1
      /\ log'[Len(log')].rec.op = "Commit"
      /\ result' = "Ok")
       => /\ data' = Merge(data, txSpec)
          /\ \A k \in Keys : txSpec[k] = Absent => data'[k] = Absent
  ]_vars

\* ---------------------------------------------------------------------- C20
\* C20: every Commit or Abort record whose write_log(sync = true) returned Ok
\* is among the records read_log returns from the log file, also when an
\* earlier write_log of the session failed part-way and left a torn frame.
C20_SyncedRecordsSurvive ==
  \A i \in 1..Len(log) :
    (/\ i <= synced
     /\ log[i].rec.op \in {"Commit", "Abort"}
     /\ log[i].st \in {"c", "a"}
     /\ log[i].n = FrameLen(log[i].rec))
      => i <= ValidPrefix(log)

====
